---- MODULE Spec2Model ----
(***************************************************************************)
(* Model of collect_video_metadata_from_ids.py: the enrichment driver that *)
(* extracts video ids from a seed-run document, filters out the ids that   *)
(* already have a per-video artifact, fetches the rest one by one through  *)
(* yt-dlp, stops early on too many failures and writes a run summary.      *)
(* The per_video directory is the only state that survives a process.      *)
(* Spec is the program run as a process; UnitSpec calls the extraction and *)
(* the fetch invoker on their own, on inputs main() does not produce;      *)
(* RerunSpec is one process followed by a second one, with resume enabled, *)
(* on the same input and the same output directory.                        *)
(***************************************************************************)
EXTENDS Integers, Sequences, FiniteSets, TLC

\* ---------------------------------------------------------------- bounds
\* result groups in an input document
MaxGroups == 2
\* video references in all the groups of an input document
MaxVideos == 3
\* largest value tried for --max-consecutive-errors and --max-total-errors
MaxThreshold == 2
\* largest value tried for --max-videos
MaxCap == 2

\* ---------------------------------------------------------------- values
\* Python's None
None == "<None>"

\* the video ids that occur in input documents
Ids == {"A", "B", "C"}

\* the owner handle that occurs in input documents
Handle == "u1"

\* bool(v) of a str-or-None value: None and "" are falsy
Truthy(v) == v # None /\ v # ""

\* a or b
Or(a, b) == IF Truthy(a) THEN a ELSE b

\* f"https://www.tiktok.com/@{username}/video/{vid}"
UrlTemplate(username, vid) == "https://www.tiktok.com/@" \o username \o "/video/" \o vid

\* results[].videos[] entries of the documents tried: a reference that
\* carries its url, two that leave the url to be synthesized, and one
\* that has neither id nor url
Refs == {[video_id |-> "A", url |-> UrlTemplate(Handle, "A")],
         [video_id |-> "B", url |-> None],
         [video_id |-> "C", url |-> None],
         [video_id |-> None, url |-> None]}

\* sequences over S of length 0..n
SeqUpTo(S, n) == UNION {[1..m -> S] : m \in 0..n}

\* results[] of up to n groups, each a profile.username (or none) of owners
\* and videos[] over refs, that hold up to r references in all
RECURSIVE Groups(_, _, _, _)
Groups(owners, refs, n, r) ==
    IF n = 0 THEN {<< >>}
    ELSE {<< >>} \cup
         UNION {{<< g >> \o rest : rest \in Groups(owners, refs, n - 1, r - Len(g.videos))} :
                   g \in [username : owners, videos : SeqUpTo(refs, r)]}

\* ---------------------------------------------------------------- extraction
\* the inner loop body synthesizing a url for the default owner as well
ItemsOfRef_any_owner(username, v) ==
    LET vid == v.video_id
        url == IF ~Truthy(v.url) /\ Truthy(vid) /\ Truthy(username)
               THEN UrlTemplate(username, vid)
               ELSE v.url
    IN IF Truthy(vid) /\ Truthy(url)
       THEN << [video_id |-> vid, url |-> url, username |-> username] >>
       ELSE << >>

\* the body of the inner loop: the item a reference contributes, if any
ItemsOfRef(username, v) ==
    LET vid == v.video_id
        url == IF ~Truthy(v.url) /\ Truthy(vid) /\ Truthy(username) /\ username # "unknown"
               THEN UrlTemplate(username, vid)
               ELSE v.url
    IN IF Truthy(vid) /\ Truthy(url)
       THEN << [video_id |-> vid, url |-> url, username |-> username] >>
       ELSE << >>

RECURSIVE ItemsOfVideos(_, _)
ItemsOfVideos(username, vs) ==
    IF vs = << >> THEN << >>
    ELSE ItemsOfRef(username, Head(vs)) \o ItemsOfVideos(username, Tail(vs))

RECURSIVE ItemsOfResults(_)
ItemsOfResults(results) ==
    IF results = << >> THEN << >>
    ELSE ItemsOfVideos(Or(Head(results).username, "unknown"), Head(results).videos)
         \o ItemsOfResults(Tail(results))

\* the de-dup that keeps the last item of an id instead of the first
RECURSIVE DedupFrom_keep_last(_, _)
DedupFrom_keep_last(out, seen) ==
    IF out = << >> THEN << >>
    ELSE IF \E j \in 1..Len(Tail(out)) : Tail(out)[j].video_id = Head(out).video_id
         THEN DedupFrom_keep_last(Tail(out), seen)
         ELSE << Head(out) >> \o DedupFrom_keep_last(Tail(out), seen)

\* de-dup by video_id preserving order
RECURSIVE DedupFrom(_, _)
DedupFrom(out, seen) ==
    IF out = << >> THEN << >>
    ELSE IF Head(out).video_id \notin seen
         THEN << Head(out) >> \o DedupFrom(Tail(out), seen \cup {Head(out).video_id})
         ELSE DedupFrom(Tail(out), seen)

\* the extraction without its de-dup pass
extract_without_dedup(seed_run_json) ==
    ItemsOfResults(seed_run_json.results)

extract_video_urls_from_seed_run(seed_run_json) ==
    DedupFrom(ItemsOfResults(seed_run_json.results), {})

\* seed-run documents: {"results": [...]}
SeedRuns == [results : Groups({Handle}, Refs, MaxGroups, MaxVideos)]

\* the working sets the documents extract to
ExtractionClasses == {extract_video_urls_from_seed_run(d) : d \in SeedRuns}

\* what --input can point at: no file, a file that is not JSON, a document.
\* main() reads a document only through its extraction, so one document
\* stands for all those that extract to the same working set
Inputs ==
    {[file |-> "missing"], [file |-> "invalid"]} \cup
    {[file |-> "json",
      seed_run |-> CHOOSE d \in SeedRuns : extract_video_urls_from_seed_run(d) = vs] :
        vs \in ExtractionClasses}

\* a url a reference carries that is not the one the template gives
GivenUrl == "https://vm.tiktok.com/ZM1"

\* documents in which ids repeat, within a group and across groups, under a
\* named owner and under no owner, with and without a url of their own
RepeatingRefs == {[video_id |-> "A", url |-> None],
                  [video_id |-> "A", url |-> GivenUrl],
                  [video_id |-> "B", url |-> None]}

RepeatingDocs == [results : Groups({Handle, None}, RepeatingRefs, MaxGroups, MaxVideos)]

\* documents of one reference: every combination of a missing, empty,
\* default or real owner handle with a missing, empty or real id and url
OneRefDocs ==
    {[results |-> << [username |-> u, videos |-> << [video_id |-> v, url |-> w] >>] >>] :
        u \in {None, "", "unknown", Handle}, v \in {None, "", "A"}, w \in {None, "", GivenUrl}}

\* ---------------------------------------------------------------- fetch invoker
\* the value None where a parsed JSON value is expected
PyNone == [type |-> "NoneType"]

\* json.loads of the texts yt-dlp can print: a parsed value, or no value
\* at all when the text is not JSON (JSONDecodeError)
IsJson(stdout) == stdout \in {"{\"id\": \"1\"}", "{}", "null"}

json_loads(stdout) ==
    CASE stdout = "{\"id\": \"1\"}" -> [type |-> "dict", len |-> 1]
      [] stdout = "{}"              -> [type |-> "dict", len |-> 0]
      [] stdout = "null"            -> PyNone

\* bool(info) for a parsed JSON value
TruthyJson(j) ==
    CASE j.type = "NoneType" -> FALSE
      [] j.type = "dict"     -> j.len > 0

\* what subprocess.run can do: raise TimeoutExpired, raise FileNotFoundError,
\* raise something else, or return a completed process
ProcResults ==
    {[kind |-> "timeout"], [kind |-> "notfound"], [kind |-> "exception"]} \cup
    [kind : {"exit"}, returncode : {-9, 0, 1, 2, 101, 124, 127},
     stdout : {"{\"id\": \"1\"}", "{}", "null", "<html>"}, stderr : {"", "ERROR: blocked"}]

\* the subprocess results tried inside the batch loop
LoopResults ==
    {[kind |-> "exit", returncode |-> 1, stdout |-> "", stderr |-> "ERROR: blocked"],
     [kind |-> "exit", returncode |-> 0, stdout |-> "{\"id\": \"1\"}", stderr |-> ""],
     [kind |-> "exit", returncode |-> 0, stdout |-> "{}", stderr |-> ""]}

\* (json_dict or None, error_string or None, returncode); stderr texts are
\* already stripped and shorter than the 2000 characters kept
run_ytdlp_dump_json(p) ==
    CASE p.kind = "timeout"   -> [info |-> PyNone, err |-> "timeout", rc |-> 124]
      [] p.kind = "notfound"  -> [info |-> PyNone, err |-> "yt-dlp not found", rc |-> 127]
      [] p.kind = "exception" -> [info |-> PyNone, err |-> "exception", rc |-> 1]
      [] p.kind = "exit" ->
            IF p.returncode # 0
            THEN [info |-> PyNone, err |-> Or(p.stderr, "yt-dlp failed"), rc |-> p.returncode]
            ELSE IF IsJson(p.stdout)
                 THEN [info |-> json_loads(p.stdout), err |-> None, rc |-> 0]
                 ELSE [info |-> PyNone, err |-> "failed to parse yt-dlp JSON output", rc |-> 2]

\* ---------------------------------------------------------------- resume filter
\* directory entries other than artifacts that per_video/ may hold
StrayFiles == {[stem |-> "A", suffix |-> ".txt"]}

\* the record written under a name the resume scan does not match
ArtifactName_part(vid) == [stem |-> vid, suffix |-> ".part"]

\* per_video_dir / f"{vid}.json"
ArtifactName(vid) == [stem |-> vid, suffix |-> ".json"]

\* the scan without the *.json pattern: every entry's stem counts
existing_video_ids_any_suffix(exists, files) ==
    IF ~exists THEN {}
    ELSE {p.stem : p \in {q \in files : q.stem # ""}}

\* stems of the *.json entries of per_video_dir; empty when it does not exist
existing_video_ids(exists, files) ==
    IF ~exists THEN {}
    ELSE {p.stem : p \in {q \in files : q.suffix = ".json" /\ q.stem # ""}}

\* the filter that removes nothing
NotDone_keep_all(vs, done) == vs

\* the filter giving the kept items last-first
RECURSIVE NotDone_reversed(_, _)
NotDone_reversed(vs, done) ==
    IF vs = << >> THEN << >>
    ELSE IF Head(vs).video_id \notin done
         THEN NotDone_reversed(Tail(vs), done) \o << Head(vs) >>
         ELSE NotDone_reversed(Tail(vs), done)

\* [v for v in videos if v["video_id"] not in done_ids]
RECURSIVE NotDone(_, _)
NotDone(vs, done) ==
    IF vs = << >> THEN << >>
    ELSE IF Head(vs).video_id \notin done
         THEN << Head(vs) >> \o NotDone(Tail(vs), done)
         ELSE NotDone(Tail(vs), done)

\* videos[: max_videos] when max_videos > 0
Cap(vs, max_videos) ==
    IF max_videos > 0 THEN SubSeq(vs, 1, IF max_videos < Len(vs) THEN max_videos ELSE Len(vs))
    ELSE vs

\* ---------------------------------------------------------------- early stop
\* the consecutive check without its "> 0" guard
ConsecutiveStop_unguarded(max_consecutive, consecutive) ==
    consecutive >= max_consecutive

\* args.max_consecutive_errors > 0 and consecutive_errors >= args.max_consecutive_errors
ConsecutiveStop(max_consecutive, consecutive) ==
    max_consecutive > 0 /\ consecutive >= max_consecutive

\* the total check with ">" for ">="
TotalStop_late(max_total, total) ==
    max_total > 0 /\ total > max_total

\* args.max_total_errors > 0 and len(errors) >= args.max_total_errors
TotalStop(max_total, total) ==
    max_total > 0 /\ total >= max_total

\* the test that sends every outcome to the success branch
IsError_never(res) == FALSE

\* if err or not info
IsError(res) == Truthy(res.err) \/ ~TruthyJson(res.info)

\* ---------------------------------------------------------------- state
VARIABLES
    pc,                     \* position of the process: idle, loaded, loop, exited,
                            \* crashed, killed
    exit_code,              \* value returned by main(), -1 while there is none
    per_video_exists,       \* <out_dir>/per_video exists
    per_video_files,        \* directory entries of <out_dir>/per_video
    videos,                 \* the working set
    extracted,              \* videos as it was before the resume filter
    done_ids,
    skip_existing,
    write_per_video,        \* args.write_per_video
    max_consecutive_errors, \* args.max_consecutive_errors
    max_total_errors,       \* args.max_total_errors
    max_videos,             \* args.max_videos
    now,                    \* the clock: ticks since the process started
    i,                      \* items of videos the loop has taken
    enriched,
    errors,
    consecutive_errors,
    stopped,                \* which break left the loop: none, consecutive, total
    fetched,                \* log of the run's calls of run_ytdlp_dump_json
    written,                \* log of the run's write_text calls on per_video
    summaries,              \* payloads the run wrote to videos_enriched_<ts>.json
    events,                 \* log of the loop's fetches and time.sleep calls
    unit_call,              \* a function called on its own: its name and argument
    unit_ret,               \* what that call returned
    previous                \* what the process before this one left behind

vars == << pc, exit_code, per_video_exists, per_video_files, videos, extracted,
           done_ids, skip_existing, write_per_video, max_consecutive_errors,
           max_total_errors, max_videos, now, i, enriched, errors,
           consecutive_errors, stopped, fetched, written, summaries, events,
           unit_call, unit_ret, previous >>

\* no process is running: nothing but the output directory holds state
NoProcess ==
    /\ pc = "idle"
    /\ exit_code = -1
    /\ videos = << >>
    /\ extracted = << >>
    /\ done_ids = {}
    /\ skip_existing = FALSE
    /\ write_per_video = FALSE
    /\ max_consecutive_errors = 0
    /\ max_total_errors = 0
    /\ max_videos = 0
    /\ now = 0
    /\ events = << >>
    /\ i = 0
    /\ enriched = << >>
    /\ errors = << >>
    /\ consecutive_errors = 0
    /\ stopped = "none"
    /\ fetched = << >>
    /\ written = << >>
    /\ summaries = << >>

\* no function is called on its own
NoUnitCall ==
    /\ unit_call = None
    /\ unit_ret = << >>

\* no earlier process is remembered
NoRun == [how |-> "none", write_per_video |-> FALSE, extracted |-> << >>,
          succeeded |-> {}, unfinished |-> {}]

Init ==
    /\ NoProcess
    /\ NoUnitCall
    /\ previous = NoRun
    /\ \/ per_video_exists = FALSE /\ per_video_files = {}
       \/ per_video_exists = TRUE /\ per_video_files \in SUBSET StrayFiles

\* ---------------------------------------------------------------- main()
\* a process starts, reads --input and extracts the videos
LoadInput(input) ==
    /\ pc = "idle"
    /\ IF input.file \in {"missing", "invalid"}
       THEN /\ pc' = "exited"
            /\ exit_code' = 2
            /\ videos' = videos
       ELSE /\ pc' = "loaded"
            /\ exit_code' = exit_code
            /\ videos' = extract_video_urls_from_seed_run(input.seed_run)
    /\ UNCHANGED << per_video_exists, per_video_files, extracted, done_ids,
                    skip_existing, write_per_video, max_consecutive_errors,
                    max_total_errors, max_videos, now, i, enriched, errors,
                    consecutive_errors, stopped, fetched, written, summaries,
                    events, unit_call, unit_ret, previous >>

\* the setup without the "if skip_existing" around the resume filter
Setup_always_resumes(cap, wpv, no_skip_existing, max_consecutive, max_total) ==
    LET capped == Cap(videos, cap)
        exists == per_video_exists \/ wpv
        skip   == ~no_skip_existing
        done   == existing_video_ids(exists, per_video_files)
    IN /\ pc = "loaded"
       /\ pc' = "loop"
       /\ per_video_exists' = exists
       /\ extracted' = capped
       /\ skip_existing' = skip
       /\ done_ids' = done
       /\ videos' = IF done # {} THEN NotDone(capped, done) ELSE capped
       /\ write_per_video' = wpv
       /\ max_consecutive_errors' = max_consecutive
       /\ max_total_errors' = max_total
       /\ max_videos' = cap
       /\ enriched' = << >>
       /\ errors' = << >>
       /\ consecutive_errors' = 0
       /\ UNCHANGED << exit_code, per_video_files, now, i, stopped, fetched, written,
                       summaries, events, unit_call, unit_ret, previous >>

\* the setup applying the cap to what the resume filter kept
Setup_caps_after_filter(cap, wpv, no_skip_existing, max_consecutive, max_total) ==
    LET exists == per_video_exists \/ wpv
        skip   == ~no_skip_existing
        done   == IF skip THEN existing_video_ids(exists, per_video_files) ELSE {}
        kept   == IF skip /\ done # {} THEN NotDone(videos, done) ELSE videos
    IN /\ pc = "loaded"
       /\ pc' = "loop"
       /\ per_video_exists' = exists
       /\ extracted' = videos
       /\ skip_existing' = skip
       /\ done_ids' = done
       /\ videos' = Cap(kept, cap)
       /\ write_per_video' = wpv
       /\ max_consecutive_errors' = max_consecutive
       /\ max_total_errors' = max_total
       /\ max_videos' = cap
       /\ enriched' = << >>
       /\ errors' = << >>
       /\ consecutive_errors' = 0
       /\ UNCHANGED << exit_code, per_video_files, now, i, stopped, fetched, written,
                       summaries, events, unit_call, unit_ret, previous >>

\* the cap, the per_video directory, the resume filter and the loop's
\* initial state, under the command line's options
Setup(cap, wpv, no_skip_existing, max_consecutive, max_total) ==
    LET capped == Cap(videos, cap)
        exists == per_video_exists \/ wpv
        skip   == ~no_skip_existing
        done   == IF skip THEN existing_video_ids(exists, per_video_files) ELSE {}
    IN /\ pc = "loaded"
       /\ pc' = "loop"
       /\ per_video_exists' = exists
       /\ extracted' = capped
       /\ skip_existing' = skip
       /\ done_ids' = done
       /\ videos' = IF skip /\ done # {} THEN NotDone(capped, done) ELSE capped
       /\ write_per_video' = wpv
       /\ max_consecutive_errors' = max_consecutive
       /\ max_total_errors' = max_total
       /\ max_videos' = cap
       /\ enriched' = << >>
       /\ errors' = << >>
       /\ consecutive_errors' = 0
       /\ UNCHANGED << exit_code, per_video_files, now, i, stopped, fetched, written,
                       summaries, events, unit_call, unit_ret, previous >>

\* an iteration that sleeps whatever happened before
ReachesSleep_always(stop, position) == TRUE

\* the iteration gets to the time.sleep at the end of the loop body: no
\* break and no exception took it out of the loop
ReachesSleep(stop, position) == stop = "none" /\ position = "loop"

\* the iteration without the reset of consecutive_errors after a success
LoopStep_without_reset(proc, raises) ==
    /\ pc = "loop"
    /\ stopped = "none"
    /\ i < Len(videos)
    /\ LET item == videos[i + 1]
           vid  == item.video_id
           res  == run_ytdlp_dump_json(proc)
           t    == now + 1
       IN /\ raises => (write_per_video /\ ~IsError(res))
          /\ i' = i + 1
          /\ fetched' = Append(fetched, [video_id |-> vid, proc |-> proc])
          /\ IF IsError(res)
             THEN /\ consecutive_errors' = consecutive_errors + 1
                  /\ errors' = Append(errors,
                        [video_id |-> vid, url |-> item.url, username |-> item.username,
                         scraped_at |-> t, returncode |-> res.rc,
                         error |-> Or(res.err, "unknown error")])
                  /\ stopped' =
                        IF ConsecutiveStop(max_consecutive_errors, consecutive_errors + 1)
                        THEN "consecutive"
                        ELSE IF TotalStop(max_total_errors, Len(errors) + 1)
                             THEN "total"
                             ELSE "none"
                  /\ UNCHANGED << pc, enriched, written, per_video_files >>
             ELSE /\ consecutive_errors' = consecutive_errors
                  /\ enriched' = Append(enriched,
                        [video_id |-> vid, url |-> item.url, username |-> item.username,
                         scraped_at |-> t, yt_dlp |-> res.info])
                  /\ IF write_per_video
                     THEN /\ written' = Append(written, [video_id |-> vid, raised |-> raises])
                          /\ per_video_files' =
                                IF raises THEN per_video_files
                                ELSE per_video_files \cup {ArtifactName(vid)}
                          /\ pc' = IF raises THEN "crashed" ELSE pc
                     ELSE UNCHANGED << pc, written, per_video_files >>
                  /\ UNCHANGED << errors, stopped >>
          /\ IF ReachesSleep(stopped', pc')
             THEN /\ events' = events \o << "fetch", "sleep" >>
                  /\ now' = t + 1
             ELSE /\ events' = Append(events, "fetch")
                  /\ now' = t
    /\ UNCHANGED << exit_code, per_video_exists, videos, extracted, done_ids,
                    skip_existing, write_per_video, max_consecutive_errors,
                    max_total_errors, max_videos, summaries, unit_call, unit_ret, previous >>

\* one iteration of the loop over videos: the fetch, the record, the
\* early-stop checks, the per-video write and the time.sleep that ends the
\* iteration unless a break or an exception left the loop; raises says
\* whether write_text raises OSError (it then fails before it creates the
\* file), which it can only where it is called. The fetch takes one tick of
\* the clock and so does the sleep
LoopStep(proc, raises) ==
    /\ pc = "loop"
    /\ stopped = "none"
    /\ i < Len(videos)
    /\ LET item == videos[i + 1]
           vid  == item.video_id
           res  == run_ytdlp_dump_json(proc)
           t    == now + 1
       IN /\ raises => (write_per_video /\ ~IsError(res))
          /\ i' = i + 1
          /\ fetched' = Append(fetched, [video_id |-> vid, proc |-> proc])
          /\ IF IsError(res)
             THEN /\ consecutive_errors' = consecutive_errors + 1
                  /\ errors' = Append(errors,
                        [video_id |-> vid, url |-> item.url, username |-> item.username,
                         scraped_at |-> t, returncode |-> res.rc,
                         error |-> Or(res.err, "unknown error")])
                  /\ stopped' =
                        IF ConsecutiveStop(max_consecutive_errors, consecutive_errors + 1)
                        THEN "consecutive"
                        ELSE IF TotalStop(max_total_errors, Len(errors) + 1)
                             THEN "total"
                             ELSE "none"
                  /\ UNCHANGED << pc, enriched, written, per_video_files >>
             ELSE /\ consecutive_errors' = 0
                  /\ enriched' = Append(enriched,
                        [video_id |-> vid, url |-> item.url, username |-> item.username,
                         scraped_at |-> t, yt_dlp |-> res.info])
                  /\ IF write_per_video
                     THEN /\ written' = Append(written, [video_id |-> vid, raised |-> raises])
                          /\ per_video_files' =
                                IF raises THEN per_video_files
                                ELSE per_video_files \cup {ArtifactName(vid)}
                          /\ pc' = IF raises THEN "crashed" ELSE pc
                     ELSE UNCHANGED << pc, written, per_video_files >>
                  /\ UNCHANGED << errors, stopped >>
          /\ IF ReachesSleep(stopped', pc')
             THEN /\ events' = events \o << "fetch", "sleep" >>
                  /\ now' = t + 1
             ELSE /\ events' = Append(events, "fetch")
                  /\ now' = t
    /\ UNCHANGED << exit_code, per_video_exists, videos, extracted, done_ids,
                    skip_existing, write_per_video, max_consecutive_errors,
                    max_total_errors, max_videos, summaries, unit_call, unit_ret, previous >>

\* the payload of videos_enriched_<ts>.json
Payload ==
    [run_started_at        |-> now,
     video_count_requested |-> Len(videos),
     video_count_succeeded |-> Len(enriched),
     video_count_failed    |-> Len(errors),
     skipped_existing      |-> IF skip_existing THEN Cardinality(done_ids) ELSE 0,
     results               |-> enriched,
     errors                |-> errors]

\* the summary step returning 1 when the run recorded errors
WriteSummary_fails_on_errors ==
    /\ pc = "loop"
    /\ stopped # "none" \/ i = Len(videos)
    /\ summaries' = Append(summaries, Payload)
    /\ pc' = "exited"
    /\ exit_code' = IF errors = << >> THEN 0 ELSE 1
    /\ UNCHANGED << per_video_exists, per_video_files, videos, extracted, done_ids,
                    skip_existing, write_per_video, max_consecutive_errors,
                    max_total_errors, max_videos, now, i, enriched, errors,
                    consecutive_errors, stopped, fetched, written, events,
                    unit_call, unit_ret, previous >>

\* after the loop: write the summary and return 0
WriteSummary ==
    /\ pc = "loop"
    /\ stopped # "none" \/ i = Len(videos)
    /\ summaries' = Append(summaries, Payload)
    /\ pc' = "exited"
    /\ exit_code' = 0
    /\ UNCHANGED << per_video_exists, per_video_files, videos, extracted, done_ids,
                    skip_existing, write_per_video, max_consecutive_errors,
                    max_total_errors, max_videos, now, i, enriched, errors,
                    consecutive_errors, stopped, fetched, written, events,
                    unit_call, unit_ret, previous >>

\* the process is terminated from outside (a signal, Ctrl-C) between two
\* iterations of the loop, in the time.sleep that follows an item while
\* another item is due. Nothing is written any more
Kill ==
    /\ pc = "loop"
    /\ stopped = "none"
    /\ 0 < i /\ i < Len(videos)
    /\ pc' = "killed"
    /\ UNCHANGED << exit_code, per_video_exists, per_video_files, videos, extracted,
                    done_ids, skip_existing, write_per_video, max_consecutive_errors,
                    max_total_errors, max_videos, now, i, enriched, errors,
                    consecutive_errors, stopped, fetched, written, summaries, events,
                    unit_call, unit_ret, previous >>

\* the process is gone (SystemExit, the traceback of an uncaught exception
\* or a signal); the output directory stays
Gone ==
    /\ pc \in {"exited", "crashed", "killed"}
    /\ pc' = "idle"
    /\ exit_code' = -1
    /\ videos' = << >>
    /\ extracted' = << >>
    /\ done_ids' = {}
    /\ skip_existing' = FALSE
    /\ write_per_video' = FALSE
    /\ max_consecutive_errors' = 0
    /\ max_total_errors' = 0
    /\ max_videos' = 0
    /\ now' = 0
    /\ events' = << >>
    /\ i' = 0
    /\ enriched' = << >>
    /\ errors' = << >>
    /\ consecutive_errors' = 0
    /\ stopped' = "none"
    /\ fetched' = << >>
    /\ written' = << >>
    /\ summaries' = << >>
    /\ UNCHANGED << per_video_exists, per_video_files, unit_call, unit_ret >>

\* the process of Spec is gone
ProcessExit == Gone /\ UNCHANGED previous

Next ==
    \/ \E input \in Inputs : LoadInput(input)
    \/ \E cap \in 0..MaxCap, wpv \in BOOLEAN, no_skip_existing \in BOOLEAN,
          max_consecutive \in 0..MaxThreshold, max_total \in 0..MaxThreshold :
            Setup(cap, wpv, no_skip_existing, max_consecutive, max_total)
    \/ \E proc \in LoopResults, raises \in BOOLEAN : LoopStep(proc, raises)
    \/ WriteSummary
    \/ Kill
    \/ ProcessExit

Spec == Init /\ [][Next]_vars

\* ---------------------------------------------------------------- functions on their own
\* the calls made: the extraction on a document, the invoker on what
\* subprocess.run does
UnitCalls ==
    {[fn |-> "extract_video_urls_from_seed_run", arg |-> d] : d \in RepeatingDocs \cup OneRefDocs}
    \cup {[fn |-> "run_ytdlp_dump_json", arg |-> p] : p \in ProcResults}

UnitInit ==
    /\ NoProcess
    /\ per_video_exists = FALSE
    /\ per_video_files = {}
    /\ unit_call \in UnitCalls
    /\ unit_ret = << >>
    /\ previous = NoRun

Extract ==
    /\ unit_call.fn = "extract_video_urls_from_seed_run"
    /\ unit_ret = << >>
    /\ unit_ret' = << extract_video_urls_from_seed_run(unit_call.arg) >>
    /\ UNCHANGED << pc, exit_code, per_video_exists, per_video_files, videos, extracted,
                    done_ids, skip_existing, write_per_video, max_consecutive_errors,
                    max_total_errors, max_videos, now, i, enriched, errors,
                    consecutive_errors, stopped, fetched, written, summaries, events,
                    unit_call, previous >>

Invoke ==
    /\ unit_call.fn = "run_ytdlp_dump_json"
    /\ unit_ret = << >>
    /\ unit_ret' = << run_ytdlp_dump_json(unit_call.arg) >>
    /\ UNCHANGED << pc, exit_code, per_video_exists, per_video_files, videos, extracted,
                    done_ids, skip_existing, write_per_video, max_consecutive_errors,
                    max_total_errors, max_videos, now, i, enriched, errors,
                    consecutive_errors, stopped, fetched, written, summaries, events,
                    unit_call, previous >>

UnitNext ==
    \/ Extract
    \/ Invoke

UnitSpec == UnitInit /\ [][UnitNext]_vars

\* ---------------------------------------------------------------- a run and its rerun
\* what a process that got into its loop leaves behind when it is gone: how
\* it ended, its options and list, the ids it recorded as successes, and
\* the ids of its working set that have no success record and no artifact
Remembered ==
    LET onDisk == existing_video_ids(per_video_exists, per_video_files)
        ok     == {enriched[j].video_id : j \in 1..Len(enriched)}
    IN [how             |-> pc,
        write_per_video |-> write_per_video,
        extracted       |-> extracted,
        succeeded       |-> ok,
        unfinished      |-> {videos[j].video_id : j \in 1..Len(videos)} \ (ok \cup onDisk)]

\* one process on an output directory, of any input and options but
\* --max-videos, followed by one process with resume enabled on the same
\* input and the same directory
\* the second process is given the input of the first
LoadSameInput(input) ==
    /\ LoadInput(input)
    /\ previous = NoRun \/ videos' = previous.extracted

\* no --max-videos; the second process runs without --no-skip-existing
SetupForRerun(wpv, no_skip_existing, max_consecutive, max_total) ==
    /\ previous = NoRun \/ ~no_skip_existing
    /\ Setup(0, wpv, no_skip_existing, max_consecutive, max_total)

\* the first process is gone and is remembered, unless it never got past
\* reading its input
FirstProcessExit ==
    /\ previous = NoRun
    /\ Gone
    /\ previous' = IF exit_code = 2 THEN NoRun ELSE Remembered

RerunNext ==
    \/ \E input \in Inputs : LoadSameInput(input)
    \/ \E wpv \in BOOLEAN, no_skip_existing \in BOOLEAN,
          max_consecutive \in 0..MaxThreshold, max_total \in 0..MaxThreshold :
            SetupForRerun(wpv, no_skip_existing, max_consecutive, max_total)
    \/ \E proc \in LoopResults, raises \in BOOLEAN : LoopStep(proc, raises)
    \/ WriteSummary
    \/ Kill
    \/ FirstProcessExit

RerunSpec == Init /\ [][RerunNext]_vars

\* ---------------------------------------------------------------- properties
\* the video ids of a list of items, records or log entries
IdsOf(s) == {s[j].video_id : j \in 1..Len(s)}

\* the tool exited with status 0 and printed parsable JSON
ToolSucceeded(p) == p.kind = "exit" /\ p.returncode = 0 /\ IsJson(p.stdout)

\* the last n fetches of the run all failed
LastFailed(n) ==
    /\ Len(fetched) >= n
    /\ \A m \in (Len(fetched) - n + 1)..Len(fetched) : ~ToolSucceeded(fetched[m].proc)

\* C1: with a consecutive-failure threshold k > 0 the run stops right after
\* the k-th of k failures in a row (nothing is fetched after them), a
\* successful fetch resets the consecutive-failure counter to 0, and the
\* consecutive stop fires only after k failures in a row.
C1_ConsecutiveAbort ==
    max_consecutive_errors > 0 =>
        /\ \A j \in 1..Len(fetched) :
              ( /\ j >= max_consecutive_errors
                /\ \A m \in (j - max_consecutive_errors + 1)..j :
                      ~ToolSucceeded(fetched[m].proc) )
              => Len(fetched) = j
        /\ (fetched # << >> /\ ToolSucceeded(fetched[Len(fetched)].proc))
              => consecutive_errors = 0
        /\ stopped = "consecutive" => LastFailed(max_consecutive_errors)

\* the run's summary payload, once written
Summary == summaries[1]

\* how many of the first j fetches of the run ended as an ErrorRecord
ErrorsAmong(j) == Cardinality({m \in 1..j : fetched[m].video_id \in IdsOf(errors)})

\* how many of the first j fetches of the run the tool itself failed
ToolFailuresAmong(j) == Cardinality({m \in 1..j : ~ToolSucceeded(fetched[m].proc)})

\* C2: with a total-failure threshold t > 0 nothing is fetched once t
\* failures have been counted, wherever they fall among the successes: the
\* failures before any fetch number fewer than t, the loop is left as soon
\* as the count reaches t, and the summary's failedCount never exceeds t.
C2_TotalAbort ==
    max_total_errors > 0 =>
        /\ \A j \in 1..Len(fetched) :
              /\ ErrorsAmong(j - 1) < max_total_errors
              /\ ToolFailuresAmong(j - 1) < max_total_errors
        /\ Len(errors) <= max_total_errors
        /\ (pc = "loop" /\ Len(errors) = max_total_errors) => stopped # "none"
        /\ summaries # << >> => Summary.video_count_failed <= max_total_errors

\* C2 witness: a run with t = 1 stopped by the total check after a success
\* and a failure, with an item left unfetched, and wrote its summary
C2_Witness ==
    /\ max_total_errors = 1
    /\ stopped = "total"
    /\ pc = "exited"
    /\ Len(enriched) = 1
    /\ Len(fetched) < Len(videos)
    /\ Summary.video_count_failed = 1

\* C3: a threshold of 0 disables its check: the consecutive stop never
\* fires when --max-consecutive-errors is 0, the total stop never fires
\* when --max-total-errors is 0, and with both at 0 a run that left the
\* loop has fetched every item of the working set, in order.
C3_ZeroDisables ==
    /\ max_consecutive_errors = 0 => stopped # "consecutive"
    /\ max_total_errors = 0 => stopped # "total"
    /\ (max_consecutive_errors = 0 /\ max_total_errors = 0 /\ pc = "exited" /\ exit_code = 0)
          => /\ Len(fetched) = Len(videos)
             /\ \A j \in 1..Len(videos) : fetched[j].video_id = videos[j].video_id

\* C3 witness: both thresholds 0, three items, every fetch failed, and the
\* run still went through all of them
C3_Witness ==
    /\ max_consecutive_errors = 0
    /\ max_total_errors = 0
    /\ pc = "exited"
    /\ Len(videos) = 3
    /\ Len(errors) = 3

\* the completed-id set read off the directory: stems of its .json entries
StemsOnDisk ==
    IF per_video_exists
    THEN {f.stem : f \in {g \in per_video_files : g.suffix = ".json"}}
    ELSE {}

\* index of the item with video id v in the list s
IndexOf(s, v) == CHOOSE j \in 1..Len(s) : s[j].video_id = v

\* C4: with resume enabled the working set the loop starts from is the
\* extracted list minus the items whose id is a stem of a .json entry of
\* per_video/ (none when the directory is absent), in the extracted order.
C4_ResumeFilter ==
    (pc = "loop" /\ i = 0 /\ skip_existing) =>
        /\ {videos[j] : j \in 1..Len(videos)} =
              {extracted[j] : j \in {n \in 1..Len(extracted) :
                                        extracted[n].video_id \notin StemsOnDisk}}
        /\ Len(videos) = Cardinality({n \in 1..Len(extracted) :
                                        extracted[n].video_id \notin StemsOnDisk})
        /\ \A a \in 1..Len(videos) : \A b \in 1..Len(videos) :
              a < b => IndexOf(extracted, videos[a].video_id)
                         < IndexOf(extracted, videos[b].video_id)

\* C4 witness: a resumed run about to start its loop, with a completed id
\* removed, two items kept, and a non-artifact entry in the directory
C4_Witness ==
    /\ pc = "loop" /\ i = 0 /\ skip_existing
    /\ Len(extracted) = 3
    /\ Len(videos) = 2
    /\ StemsOnDisk # {}
    /\ per_video_files \cap StrayFiles # {}

\* C5: the summary's skipped_existing is the number of items the resume
\* filter removed from the working set.
C5_SkippedCount ==
    summaries # << >> => Summary.skipped_existing = Len(extracted) - Len(videos)

\* this step calls run_ytdlp_dump_json for the video id v
FetchedNow(v) ==
    /\ Len(fetched') = Len(fetched) + 1
    /\ fetched'[Len(fetched')].video_id = v

\* this step calls write_text on the artifact of the video id v
WrittenNow(v) ==
    /\ Len(written') = Len(written) + 1
    /\ written'[Len(written')].video_id = v

\* C6: an id that has an artifact in per_video/ is never fetched by a run
\* with resume enabled, and its artifact is written again only by a run
\* that disabled resume filtering, in the step that fetched it successfully;
\* no step removes an artifact.
C6_ArtifactsImmutable ==
    [][\A v \in Ids :
          ArtifactName(v) \in per_video_files =>
              /\ FetchedNow(v) => ~skip_existing
              /\ WrittenNow(v) =>
                    /\ ~skip_existing
                    /\ FetchedNow(v)
                    /\ ToolSucceeded(fetched'[Len(fetched')].proc)
              /\ ArtifactName(v) \in per_video_files']_vars

\* C6 witness: a resumed run fetched something and ended, and an id of its
\* input that already had an artifact was left alone
C6_Witness ==
    /\ pc = "exited"
    /\ skip_existing
    /\ fetched # << >>
    /\ \E v \in IdsOf(extracted) :
          /\ ArtifactName(v) \in per_video_files
          /\ v \in done_ids
          /\ v \notin IdsOf(fetched)
          /\ v \notin IdsOf(written)

\* C7: every fetch in which the tool exited 0 with parsable output is
\* recorded as an EnrichedRecord carrying the parsed document, and not as
\* an ErrorRecord, whatever the document is.
C7_ParsableIsSuccess ==
    \A j \in 1..Len(fetched) :
        ToolSucceeded(fetched[j].proc) =>
            /\ \E n \in 1..Len(enriched) :
                  /\ enriched[n].video_id = fetched[j].video_id
                  /\ enriched[n].yt_dlp = json_loads(fetched[j].proc.stdout)
            /\ fetched[j].video_id \notin IdsOf(errors)

\* C8: a per-video write that raises does not abort the batch: the process
\* is still in its loop or has written its summary and returned.
C8_WriteFailureDoesNotAbort ==
    (\E j \in 1..Len(written) : written[j].raised) =>
        /\ pc \in {"loop", "exited"}
        /\ pc = "exited" => Len(summaries) = 1

\* how many entries of the list s carry the video id v
CountOf(s, v) == Cardinality({j \in 1..Len(s) : s[j].video_id = v})

\* C9: within a run no id is fetched twice, every fetched id has exactly
\* one record, in enriched or in errors and not in both, and no id has a
\* record without having been fetched.
C9_OneOutcomePerId ==
    /\ \A a \in 1..Len(fetched) : \A b \in 1..Len(fetched) :
          a # b => fetched[a].video_id # fetched[b].video_id
    /\ \A v \in IdsOf(fetched) : CountOf(enriched, v) + CountOf(errors, v) = 1
    /\ IdsOf(enriched) \cup IdsOf(errors) \subseteq IdsOf(fetched)
    /\ Len(fetched) = i

\* C9 witness: three ids fetched in one run, with records of both kinds
C9_Witness ==
    /\ pc = "loop"
    /\ Len(fetched) = 3
    /\ enriched # << >>
    /\ errors # << >>

\* C10: every process that got past input loading and is over wrote one
\* summary whose counts are those of the records and errors accumulated;
\* no summary is written while the loop still runs, and never two.
C10_SummaryAlwaysWritten ==
    /\ Len(summaries) <= 1
    /\ summaries # << >> =>
          /\ pc = "exited"
          /\ Summary.video_count_succeeded = Len(enriched)
          /\ Summary.video_count_failed = Len(errors)
    /\ (pc \in {"exited", "crashed"} /\ exit_code # 2) => Len(summaries) = 1

\* C11: a process that wrote its summary, after a complete loop or after an
\* early stop, exits with status 0 whatever the number of errors it
\* recorded; the only other status main() returns is 2, for an input file
\* that is missing or is not JSON, and such a process has fetched nothing
\* and written no summary.
C11_ExitStatus ==
    /\ summaries # << >> => pc = "exited" /\ exit_code = 0
    /\ pc = "exited" =>
          \/ exit_code = 0 /\ Len(summaries) = 1
          \/ exit_code = 2 /\ fetched = << >> /\ summaries = << >>
    /\ pc \in {"idle", "loaded", "loop", "crashed", "killed"} => exit_code = -1

\* C11 witness: a run that stopped early with two errors recorded and
\* exited with status 0 after writing its summary
C11_Witness ==
    /\ pc = "exited"
    /\ exit_code = 0
    /\ stopped # "none"
    /\ Len(summaries) = 1
    /\ summaries[1].video_count_failed = 2

\* the ids of s are ids of the working set and follow each other as they
\* do in the extraction output
InExtractionOrder(s) ==
    /\ IdsOf(s) \subseteq IdsOf(videos)
    /\ \A a, b \in 1..Len(s) :
          a < b => IndexOf(extracted, s[a].video_id) < IndexOf(extracted, s[b].video_id)

\* C12: the success records and the error records, in the loop and in the
\* written summary, are each in processing order, which is the extraction
\* order restricted to the items the resume filter kept: of two ids in the
\* same list the one extracted first comes first.
C12_ProcessingOrder ==
    /\ InExtractionOrder(enriched)
    /\ InExtractionOrder(errors)
    /\ summaries # << >> =>
          InExtractionOrder(Summary.results) /\ InExtractionOrder(Summary.errors)

\* C12 witness: a summary with two success records and an error record
\* between them
C12_Witness ==
    /\ summaries # << >>
    /\ Len(Summary.results) = 2
    /\ Len(Summary.errors) = 1
    /\ fetched[2].video_id = Summary.errors[1].video_id

\* how many entries of the log s are the event e
EventCount(s, e) == Cardinality({j \in 1..Len(s) : s[j] = e})

\* C13: every fetch is followed by one time.sleep before the next fetch, so
\* that exactly one sleep lies between two successive fetches; in a process
\* that no exception has ended, the sleep follows the last item of a loop
\* that ran to its end as well, and is missing only after the item whose
\* failure stopped the run early.
C13_Pacing ==
    /\ EventCount(events, "fetch") = Len(fetched)
    /\ events # << >> => events[1] = "fetch"
    /\ \A j \in 1..(Len(events) - 1) : events[j] # events[j + 1]
    /\ (events # << >> /\ pc # "crashed") =>
          (events[Len(events)] = "fetch" <=> stopped # "none")

\* C13 witness: a run that slept after each of its first two items and was
\* stopped by the third, which got no sleep
C13_Witness ==
    /\ events = << "fetch", "sleep", "fetch", "sleep", "fetch" >>
    /\ stopped = "consecutive"
    /\ Len(enriched) = 1

\* the extraction has been called on a document and has returned
Extracted == unit_call.fn = "extract_video_urls_from_seed_run" /\ unit_ret # << >>

\* positions g, k of the references of a document
RefPositions(doc) ==
    UNION {{<< g, k >> : k \in 1..Len(doc.results[g].videos)} : g \in 1..Len(doc.results)}

\* document order of positions: groups first, then references in a group
Before(p, q) == p[1] < q[1] \/ (p[1] = q[1] /\ p[2] < q[2])

\* the reference at a position has an id and a url, given or derivable from
\* a handle that is there and is not the default
Yields(doc, p) ==
    LET owner == doc.results[p[1]].username
        ref   == doc.results[p[1]].videos[p[2]]
    IN /\ Truthy(ref.video_id)
       /\ Truthy(ref.url) \/ (Truthy(owner) /\ owner # "unknown")

\* the first position of the document at which an item with id v is yielded
FirstOf(doc, v) ==
    CHOOSE p \in RefPositions(doc) :
        /\ Yields(doc, p)
        /\ doc.results[p[1]].videos[p[2]].video_id = v
        /\ \A q \in RefPositions(doc) :
              (Yields(doc, q) /\ doc.results[q[1]].videos[q[2]].video_id = v) => ~Before(q, p)

\* C14: the extraction output has each id once, has exactly the ids of the
\* references that yield an item, lists them in the document order of their
\* first such reference (groups in order, references in order in a group),
\* and gives each id the url and the owner of that first reference.
C14_FirstOccurrence ==
    Extracted =>
        LET doc == unit_call.arg
            out == unit_ret[1]
            ids == {doc.results[p[1]].videos[p[2]].video_id :
                       p \in {q \in RefPositions(doc) : Yields(doc, q)}}
        IN /\ \A a, b \in 1..Len(out) : a # b => out[a].video_id # out[b].video_id
           /\ IdsOf(out) = ids
           /\ \A a, b \in 1..Len(out) :
                 a < b => Before(FirstOf(doc, out[a].video_id), FirstOf(doc, out[b].video_id))
           /\ \A a \in 1..Len(out) :
                 LET p     == FirstOf(doc, out[a].video_id)
                     owner == doc.results[p[1]].username
                     ref   == doc.results[p[1]].videos[p[2]]
                 IN /\ out[a].username = (IF Truthy(owner) THEN owner ELSE "unknown")
                    /\ out[a].url = (IF Truthy(ref.url) THEN ref.url
                                     ELSE UrlTemplate(owner, ref.video_id))

\* C14 witness: the id A occurs under no owner with its own url and again
\* under the named owner without one, after B; the output keeps A first,
\* with the first reference's url and the default owner
C14_Witness ==
    /\ Extracted
    /\ Len(unit_call.arg.results) = 2
    /\ unit_call.arg.results[1].username = None
    /\ unit_call.arg.results[1].videos = << [video_id |-> "A", url |-> GivenUrl] >>
    /\ unit_call.arg.results[2].username = Handle
    /\ unit_call.arg.results[2].videos =
          << [video_id |-> "B", url |-> None], [video_id |-> "A", url |-> None] >>
    /\ unit_ret[1] = << [video_id |-> "A", url |-> GivenUrl, username |-> "unknown"],
                        [video_id |-> "B", url |-> UrlTemplate(Handle, "B"), username |-> Handle] >>

\* C15: a reference yields an item exactly when its id is non-empty and its
\* url is non-empty or can be synthesized, which takes an owner handle that
\* is there and is not the default "unknown"; the item of a reference
\* without url is given the template's url for that owner and id, a
\* reference with a url keeps it, a reference with no url and a missing or
\* default owner is dropped, and every item of an extraction output has a
\* non-empty id and a non-empty url.
C15_ItemOfReference ==
    Extracted =>
        LET doc == unit_call.arg
            out == unit_ret[1]
        IN /\ \A a \in 1..Len(out) : Truthy(out[a].video_id) /\ Truthy(out[a].url)
           /\ (Len(doc.results) = 1 /\ Len(doc.results[1].videos) = 1) =>
                 LET owner   == doc.results[1].username
                     ref     == doc.results[1].videos[1]
                     derives == Truthy(owner) /\ owner # "unknown"
                 IN /\ Len(out) = (IF Truthy(ref.video_id) /\ (Truthy(ref.url) \/ derives)
                                   THEN 1 ELSE 0)
                    /\ (Truthy(ref.video_id) /\ ~Truthy(ref.url) /\ derives) =>
                          out = << [video_id |-> ref.video_id,
                                    url |-> UrlTemplate(owner, ref.video_id),
                                    username |-> owner] >>
                    /\ (Truthy(ref.video_id) /\ Truthy(ref.url)) =>
                          /\ out[1].video_id = ref.video_id
                          /\ out[1].url = ref.url
                    /\ (~Truthy(ref.url) /\ ~derives) => out = << >>

\* C15 witness: a reference with an id and no url under the owner handle
\* "unknown" was extracted and dropped
C15_Witness ==
    /\ Extracted
    /\ unit_call.arg.results =
          << [username |-> "unknown", videos |-> << [video_id |-> "A", url |-> ""] >>] >>
    /\ unit_ret[1] = << >>

\* the invoker has been called on an outcome of subprocess.run and has returned
Invoked == unit_call.fn = "run_ytdlp_dump_json" /\ unit_ret # << >>

\* C16: the code the invoker returns for a timeout is returned for no other
\* cause, and the code it returns for a missing yt-dlp binary is returned
\* for no other cause, whatever status the tool exits with.
C16_DistinctCodes ==
    Invoked =>
        /\ unit_ret[1].rc = run_ytdlp_dump_json([kind |-> "timeout"]).rc
              => unit_call.arg.kind = "timeout"
        /\ unit_ret[1].rc = run_ytdlp_dump_json([kind |-> "notfound"]).rc
              => unit_call.arg.kind = "notfound"

\* C17: a summary written by a run in which every fetch was a success of
\* the tool (exit status 0 and parsable output) counts all of the working
\* set as succeeded and nothing as failed, the run was not stopped early,
\* and with --write-per-video the directory holds the artifact of every id
\* of the working set.
C17_AllSucceed ==
    (summaries # << >> /\ \A j \in 1..Len(fetched) : ToolSucceeded(fetched[j].proc)) =>
        /\ Summary.video_count_succeeded = Len(videos)
        /\ Summary.video_count_failed = 0
        /\ stopped = "none"
        /\ write_per_video => IdsOf(videos) \subseteq StemsOnDisk

\* the process got past the setup of its run
PastSetup == pc \in {"loop", "crashed"} \/ (pc = "exited" /\ exit_code = 0)

\* C18: with --no-skip-existing the working set is the extracted and capped
\* list whatever per_video/ holds, no completed id is collected, a loop
\* that ran to its end fetched every extracted item, and the summary's
\* skipped_existing is 0.
C18_ResumeDisabled ==
    (PastSetup /\ ~skip_existing) =>
        /\ videos = extracted
        /\ done_ids = {}
        /\ (i = Len(videos) /\ stopped = "none") => IdsOf(fetched) = IdsOf(extracted)
        /\ summaries # << >> => Summary.skipped_existing = 0

\* C18 witness: a run with --no-skip-existing, over a directory that holds
\* the artifact of A, fetched A and B and wrote its summary
C18_Witness ==
    /\ ~skip_existing
    /\ summaries # << >>
    /\ "A" \in StemsOnDisk
    /\ ~write_per_video
    /\ IdsOf(fetched) = {"A", "B"}

\* the first n items of the list s, all of it when it has no more than n
FirstN(s, n) == [j \in 1..(IF n < Len(s) THEN n ELSE Len(s)) |-> s[j]]

\* the step in which a process that has loaded its input sets its run up
SetupStep == pc = "loaded" /\ pc' = "loop"

\* C19: with --max-videos N > 0 a run fetches at most N items, each of them
\* among the first N of the extraction output: the setup cuts the
\* de-duplicated extraction output to its first N items and only then
\* removes the completed ids, so that the working set is the first N
\* extracted items minus the completed ones; with N = 0 nothing is cut.
C19_CapBeforeFilter ==
    /\ [](max_videos > 0 =>
            /\ Len(fetched) <= max_videos
            /\ Len(extracted) <= max_videos
            /\ IdsOf(fetched) \subseteq IdsOf(extracted))
    /\ [][SetupStep =>
            LET first == IF max_videos' > 0 THEN FirstN(videos, max_videos') ELSE videos
            IN /\ extracted' = first
               /\ videos' = SelectSeq(first, LAMBDA v : v.video_id \notin done_ids')]_vars

\* C19 witness: a run with --max-videos 2 whose second extracted item was
\* completed before fetched the first item only and ended
C19_Witness ==
    /\ max_videos = 2
    /\ Len(extracted) = 2
    /\ done_ids = {extracted[2].video_id}
    /\ IdsOf(fetched) = {extracted[1].video_id}
    /\ summaries # << >>

\* C20: the summary's run_started_at is the time the run started: it is
\* the clock's value before the first fetch, and so is not later than the
\* scraped_at of any success or error record of the summary.
C20_StartedAt ==
    summaries # << >> =>
        /\ Summary.run_started_at = 0
        /\ \A j \in 1..Len(Summary.results) :
              Summary.run_started_at <= Summary.results[j].scraped_at
        /\ \A j \in 1..Len(Summary.errors) :
              Summary.run_started_at <= Summary.errors[j].scraped_at

\* the j-th item the loop processed ended as an error record
FailedAt(j) == fetched[j].video_id \in IdsOf(errors)

\* how many items at the end of the sequence processed so far ended as
\* error records
TailFailures ==
    LET n == Len(fetched)
        lastOk == IF \E j \in 1..n : ~FailedAt(j)
                  THEN CHOOSE j \in 1..n : ~FailedAt(j) /\ \A m \in (j + 1)..n : FailedAt(m)
                  ELSE 0
    IN n - lastOk

\* C21: in every state of the loop consecutive_errors is the number of
\* error records at the end of the sequence of items processed so far (0
\* right after a success record), consecutive_errors <= len(errors),
\* len(enriched) + len(errors) is the number of items processed and is at
\* most len(videos); and the summary's succeeded and failed counts add up
\* to video_count_requested exactly when no early stop left an item of the
\* working set unprocessed.
C21_Counters ==
    /\ pc \in {"loop", "crashed", "killed"} \/ (pc = "exited" /\ exit_code = 0) =>
          /\ consecutive_errors = TailFailures
          /\ consecutive_errors <= Len(errors)
          /\ Len(enriched) + Len(errors) = Len(fetched)
          /\ Len(fetched) = i
          /\ i <= Len(videos)
    /\ summaries # << >> =>
          /\ Summary.video_count_requested = Len(videos)
          /\ (Summary.video_count_succeeded + Summary.video_count_failed
                 = Summary.video_count_requested)
             <=> ~(stopped # "none" /\ i < Len(videos))

\* C21 witness: a summary written after a success and a failure that
\* stopped the run before the last of three items was due
C21_Witness ==
    /\ summaries # << >>
    /\ Len(videos) = 3
    /\ stopped = "consecutive"
    /\ Len(enriched) = 1
    /\ Len(errors) = 1
    /\ consecutive_errors = 1

\* C22: when a process that writes per-video artifacts is killed between
\* two iterations, every id it recorded as a success has its artifact in
\* per_video/; the artifacts are still there for the process that follows,
\* and with resume enabled that process fetches none of those ids.
C22_KilledRunResumes ==
    /\ (pc = "killed" /\ write_per_video) => IdsOf(enriched) \subseteq StemsOnDisk
    /\ (previous.how = "killed" /\ previous.write_per_video) =>
          /\ previous.succeeded \subseteq StemsOnDisk
          /\ skip_existing => IdsOf(fetched) \cap previous.succeeded = {}

\* C22 witness: a process killed after it had written the artifact of its
\* first item was followed by a resumed run over the same three items,
\* which fetched the other two and wrote its summary
C22_Witness ==
    /\ previous.how = "killed"
    /\ previous.write_per_video
    /\ Cardinality(previous.succeeded) = 1
    /\ Len(extracted) = 3
    /\ skip_existing
    /\ pc = "exited"
    /\ Len(fetched) = 2

\* the process writes artifacts only for ids whose fetch succeeded: every
\* write_text is for an id the tool fetched successfully and that has a
\* success record, none is for an id with an error record
WritesOnlySuccesses ==
    /\ \A j \in 1..Len(written) :
          /\ written[j].video_id \in IdsOf(enriched)
          /\ \E m \in 1..Len(fetched) :
                /\ fetched[m].video_id = written[j].video_id
                /\ ToolSucceeded(fetched[m].proc)
    /\ IdsOf(written) \cap IdsOf(errors) = {}

\* the ids that the run before, which wrote its summary, left with an error
\* record or never took from its working set, and that have no artifact,
\* are in the working set of this resumed run on the same input
UnfinishedAreBack ==
    (previous.how = "exited" /\ skip_existing /\ pc \in {"loop", "exited", "crashed", "killed"}) =>
        previous.unfinished \subseteq IdsOf(videos)

====
